---- MODULE Spec2Model ----
(***************************************************************************)
(* A model of pyTailgating.py: the lead car driven from the keyboard, the  *)
(* follower car's controller (delayed perception, mode arbitration, two    *)
(* PID controllers, jerk limiter) and the kinematic update of both cars,   *)
(* one action per iteration of the main loop.                              *)
(*                                                                         *)
(* Numbers.  The program computes in floating point.  The model computes   *)
(* in fixed point: distances (px), speeds (px/s) and accelerations         *)
(* (px/s^2) are integers counting 1/Scale of a unit, times are integers in *)
(* milliseconds (dt = clock.tick(FPS) / 1000 is a whole number of          *)
(* milliseconds divided by 1000), PID gains are in thousandths.  Every     *)
(* product that leaves this grid is rounded down to it (\div).             *)
(***************************************************************************)
EXTENDS Integers, Sequences, FiniteSets, TLC

\* ------------------------------------------------------------------------
\* Bounds of the model
\* ------------------------------------------------------------------------
\* Resolution of the fixed-point grid: 1/Scale of a px, px/s or px/s^2.
Scale == 100
\* The number of loop iterations explored.
MaxTicks == 85
\* The keyboard state and the frame time change only on every HoldTicks-th
\* frame, and at most MaxChanges times in a run.
HoldTicks == 10
MaxChanges == 2
\* Frame times clock.tick(FPS) can return, in ms: a frame at the capped
\* rate of 60 per second, and a frame of a stalled machine.
DtSet == {17, 250}

\* ------------------------------------------------------------------------
\* Configuration (pyTailgating.py lines 9-48)
\* ------------------------------------------------------------------------
WIDTH == 1000
FPS == 60
\* PROFILES["well ok..."] = 0.6, in thousandths
profile == 600
\* 150 - 5 * profile, in 1/Scale px
TARGET_DISTANCE == ((150 * 1000 - 5 * profile) * Scale) \div 1000
DEADBAND == 6
MAX_SPEED == 350
MAX_ACCEL == 100
MAX_BRAKE == -300
MAX_JERK == 1000
\* 0.5 s, in ms
REACTION_TIME == 500
STANDSTILL_DISTANCE == 25
\* 1.8 - profile, in ms
TIME_HEADWAY == 1800 - profile
\* 2.6 - profile and 1.5 - profile, in ms
DESIRED_TTC == 2600 - profile
MIN_TTC == 1500 - profile
TTC_GAIN == 600

\* ------------------------------------------------------------------------
\* Arithmetic helpers
\* ------------------------------------------------------------------------
Max(a, b) == IF a >= b THEN a ELSE b
Min(a, b) == IF a <= b THEN a ELSE b
Abs(a) == IF a >= 0 THEN a ELSE -a

\* ------------------------------------------------------------------------
\* class PIDController
\* ------------------------------------------------------------------------
\* __init__: gains in thousandths, integral in 1/Scale px*s, prev_error in
\* 1/Scale px.
PIDController(kp, ki, kd) ==
    [kp |-> kp, ki |-> ki, kd |-> kd, integral |-> 0, prev_error |-> 0]

\* update, the controller's state after the call.
PIDUpdateState(pid, error, dt) ==
    [pid EXCEPT !.integral = pid.integral + (error * dt) \div 1000,
                !.prev_error = error]

\* A derivative guarded against dt = 0 only.
PIDDerivativeNonZeroDt(pid, error, dt) ==
    IF dt # 0 THEN ((error - pid.prev_error) * 1000) \div dt ELSE 0

\* update, the derivative term: (error - prev_error) / dt if dt > 0 else 0.
PIDDerivative(pid, error, dt) ==
    IF dt > 0 THEN ((error - pid.prev_error) * 1000) \div dt ELSE 0

\* update, the returned value: kp*error + ki*integral + kd*derivative with
\* the integral already advanced by error*dt.
PIDUpdateOutput(pid, error, dt) ==
    (pid.kp * error
       + pid.ki * PIDUpdateState(pid, error, dt).integral
       + pid.kd * PIDDerivative(pid, error, dt)) \div 1000

\* A reset that forgets to clear the integral.
PIDResetKeepsIntegral(pid) == [pid EXCEPT !.prev_error = 0]

\* A reset that clears prev_error after moving it into integral.
PIDResetShiftsError(pid) ==
    [pid EXCEPT !.integral = pid.prev_error, !.prev_error = 0]

\* reset
PIDReset(pid) == [pid EXCEPT !.integral = 0, !.prev_error = 0]

\* ------------------------------------------------------------------------
\* class Car
\* ------------------------------------------------------------------------
Car(x) == [x |-> x, speed |-> 0]

\* A speed capped at MAX_SPEED and not floored at 0.
CarSpeedNoFloor(car, accel, dt) ==
    Min(car.speed + (accel * dt) \div 1000, MAX_SPEED * Scale)

\* Car.update(accel, dt)
CarSpeed(car, accel, dt) ==
    Max(0, Min(car.speed + (accel * dt) \div 1000, MAX_SPEED * Scale))

CarUpdate(car, accel, dt) ==
    [x |-> car.x + (CarSpeed(car, accel, dt) * dt) \div 1000,
     speed |-> CarSpeed(car, accel, dt)]

\* ------------------------------------------------------------------------
\* main(): the state of the loop
\* ------------------------------------------------------------------------
VARIABLES
    lead_car,         \* Car: [x, speed]
    follower_car,     \* Car: [x, speed]
    pid_accel,        \* PIDController of the cruise branch
    pid_brake,        \* PIDController of the TTC branch (distance trim)
    reaction_buffer,  \* deque of {"distance", "rel_speed"} samples
    last_accel,       \* the commanded acceleration of the previous iteration
    user_accel,       \* the lead car's acceleration chosen from the keys
    dt,               \* the frame time of the last iteration, ms
    tick,             \* the locals of the last iteration and what it did
    pushed,           \* history: every sample appended so far, in order
    ticks,            \* history: the number of iterations run
    changes,          \* history: how often the inputs changed
    pid,              \* a PIDController exercised on its own
    pid_ops,          \* history: the calls made on pid, in order
    twin              \* a second run of the loop, stepped beside the first

vars == <<lead_car, follower_car, pid_accel, pid_brake, reaction_buffer,
          last_accel, user_accel, dt, tick, pushed, ticks, changes,
          pid, pid_ops, twin>>

loop_vars == <<lead_car, follower_car, pid_accel, pid_brake, reaction_buffer,
               last_accel, user_accel, dt, tick, pushed, ticks, changes,
               twin>>

\* ------------------------------------------------------------------------
\* main(): one iteration, piece by piece
\* ------------------------------------------------------------------------
\* user car driving: W accelerates, otherwise S brakes, otherwise coast.
UserAccel(w, s) ==
    IF w THEN MAX_ACCEL * Scale ELSE IF s THEN MAX_BRAKE * Scale ELSE 0

\* delayed perception: the true sample of this iteration.
TrueSample(lead, follower) ==
    [distance |-> lead.x - follower.x,
     rel_speed |-> follower.speed - lead.speed]

\* A buffer pre-filled with one sample at the target distance.
PrefilledBuffer == << [distance |-> TARGET_DISTANCE, rel_speed |-> 0] >>

\* reaction_buffer = deque()
EmptyBuffer == << >>

\* max_len = int(REACTION_TIME * FPS)
max_len == (REACTION_TIME * FPS) \div 1000

\* A push that trims as soon as the deque reaches max_len.
PushTrimAtCapacity(buffer, sample) ==
    IF Len(Append(buffer, sample)) >= max_len
    THEN Tail(Append(buffer, sample))
    ELSE Append(buffer, sample)

\* A push that never trims.
PushNoTrim(buffer, sample) == Append(buffer, sample)

\* append, then popleft when the deque has grown past max_len.
Push(buffer, sample) ==
    IF Len(Append(buffer, sample)) > max_len
    THEN Tail(Append(buffer, sample))
    ELSE Append(buffer, sample)

\* A perception that reads the newest sample of the deque.
PerceivedNewest(buffer) == buffer[Len(buffer)]

\* perceived = reaction_buffer[0]
Perceived(buffer) == Head(buffer)

\* STANDSTILL_DISTANCE + follower_car.speed * TIME_HEADWAY
MinFollowDistance(speed) ==
    STANDSTILL_DISTANCE * Scale + (speed * TIME_HEADWAY) \div 1000

\* float("inf")
Inf == [finite |-> FALSE, ms |-> 0]

\* A ttc guarded against rel_speed = 0 only.
TtcUnguarded(distance, rel_speed) ==
    IF rel_speed # 0
    THEN [finite |-> TRUE, ms |-> (distance * 1000) \div rel_speed]
    ELSE [finite |-> FALSE, ms |-> 0]

\* ttc = distance / rel_speed if rel_speed > 0 else inf; finite values in ms.
Ttc(distance, rel_speed) ==
    IF rel_speed > 0
    THEN [finite |-> TRUE, ms |-> (distance * 1000) \div rel_speed]
    ELSE Inf

\* ttc < bound, bound in ms (inf is below nothing).
TtcBelow(ttc, bound) == ttc.finite /\ ttc.ms < bound

\* distance - max(TARGET_DISTANCE, min_follow_distance)
DistanceError(distance, min_follow_distance) ==
    distance - Max(TARGET_DISTANCE, min_follow_distance)

\* abs(distance_error) < DEADBAND
InDeadband(distance_error) == Abs(distance_error) < DEADBAND * Scale

\* A chain that asks for TTC risk before it asks whether the gap is too small.
ModeTtcFirst(distance, min_follow_distance, ttc) ==
    IF ttc.finite /\ ttc.ms < DESIRED_TTC
    THEN IF ttc.finite /\ ttc.ms < MIN_TTC THEN "ttc_full_brake" ELSE "ttc_trim"
    ELSE IF distance < min_follow_distance THEN "too_close"
         ELSE "cruise"

\* The if / elif / else chain of lines 188-209: which branch runs.
Mode(distance, min_follow_distance, ttc) ==
    IF distance < min_follow_distance THEN "too_close"
    ELSE IF TtcBelow(ttc, DESIRED_TTC)
         THEN IF TtcBelow(ttc, MIN_TTC) THEN "ttc_full_brake" ELSE "ttc_trim"
         ELSE "cruise"

\* -TTC_GAIN * (DESIRED_TTC - ttc), in 1/Scale px/s^2
TtcBrake(ttc) == (-(TTC_GAIN * (DESIRED_TTC - ttc.ms) * Scale)) \div 1000

\* The deadband stage (lines 183-186): both controllers reset inside it.
DeadbandReset(p, distance_error) ==
    IF InDeadband(distance_error) THEN PIDReset(p) ELSE p

\* A pid_accel that the branches other than cruise leave alone.
AccelPidAfterNoReset(mode, p, distance_error, d) ==
    IF mode = "cruise" THEN PIDUpdateState(p, distance_error, d) ELSE p

\* pid_accel after the branch: reset by every branch but cruise, which
\* updates it.
AccelPidAfter(mode, p, distance_error, d) ==
    IF mode = "cruise" THEN PIDUpdateState(p, distance_error, d)
    ELSE PIDReset(p)

\* pid_brake after the branch: updated by the trim, reset by cruise, left
\* alone by the too-close branch and by the full brake below MIN_TTC.
BrakePidAfter(mode, p, distance_error, d) ==
    IF mode = "ttc_trim" THEN PIDUpdateState(p, distance_error, d)
    ELSE IF mode = "cruise" THEN PIDReset(p)
    ELSE p

\* A branch stage whose too-close branch commands nothing.
BranchAccelNoCloseBrake(mode, pa, pb, ttc, distance_error, d) ==
    IF mode = "too_close" THEN 0
    ELSE IF mode = "ttc_full_brake" THEN MAX_BRAKE * Scale
    ELSE IF mode = "ttc_trim"
         THEN Max(TtcBrake(ttc) + PIDUpdateOutput(pb, distance_error, d),
                  MAX_BRAKE * Scale)
    ELSE Min(PIDUpdateOutput(pa, distance_error, d), MAX_ACCEL * Scale)

\* A branch stage without the max / min of lines 204 and 209.
BranchAccelNoClamp(mode, pa, pb, ttc, distance_error, d) ==
    IF mode = "too_close" THEN MAX_BRAKE * Scale
    ELSE IF mode = "ttc_full_brake" THEN MAX_BRAKE * Scale
    ELSE IF mode = "ttc_trim"
         THEN TtcBrake(ttc) + PIDUpdateOutput(pb, distance_error, d)
    ELSE PIDUpdateOutput(pa, distance_error, d)

\* desired_accel as the branch leaves it (before the jerk limiter); pa and pb
\* are the controllers as the deadband stage left them.
BranchAccel(mode, pa, pb, ttc, distance_error, d) ==
    IF mode = "too_close" THEN MAX_BRAKE * Scale
    ELSE IF mode = "ttc_full_brake" THEN MAX_BRAKE * Scale
    ELSE IF mode = "ttc_trim"
         THEN Max(TtcBrake(ttc) + PIDUpdateOutput(pb, distance_error, d),
                  MAX_BRAKE * Scale)
    ELSE Min(PIDUpdateOutput(pa, distance_error, d), MAX_ACCEL * Scale)

\* A max_delta that leaves out the frame time.
MaxDeltaNoDt(d) == MAX_JERK * Scale

\* max_delta = MAX_JERK * dt
MaxDelta(d) == (MAX_JERK * d * Scale) \div 1000

\* A limiter that bounds the rise of the acceleration and not its fall.
JerkLimitRiseOnly(last, desired, d) == Min(last + MaxDelta(d), desired)

\* max(last_accel - max_delta, min(last_accel + max_delta, desired_accel))
JerkLimit(last, desired, d) ==
    Max(last - MaxDelta(d), Min(last + MaxDelta(d), desired))

\* The graphics section moves the world under the lead car: the follower is
\* shifted back by lead_car.speed * dt and the lead car put back at WIDTH // 2.
WorldShift(lead, d) == (lead.speed * d) \div 1000

\* ------------------------------------------------------------------------
\* main(): construction and the loop
\* ------------------------------------------------------------------------
\* The record kept of an iteration, before the first one.
NoTick ==
    [mode |-> "none", prev_mode |-> "none", deadband |-> FALSE,
     true_sample |-> [distance |-> 0, rel_speed |-> 0],
     distance |-> 0, rel_speed |-> 0, follower_speed |-> 0,
     follower_x |-> 0,
     min_follow_distance |-> 0, ttc |-> Inf, distance_error |-> 0,
     branch_accel |-> 0, prev_accel |-> 0, popped |-> 0,
     accel_updated |-> FALSE, brake_updated |-> FALSE,
     accel_was_updated |-> FALSE, brake_was_updated |-> FALSE,
     accel_start |-> PIDController(0, 0, 0),
     brake_start |-> PIDController(0, 0, 0),
     close_run |-> 0, close_gap |-> 0, close_budget |-> 0,
     lead_braking |-> FALSE, follower_braking |-> FALSE]

\* The objects main() builds before the loop (lines 127-136), as one record.
Constructed ==
    [lead_car |-> Car((WIDTH \div 2) * Scale),
     follower_car |-> Car((WIDTH \div 2) * Scale - TARGET_DISTANCE),
     pid_accel |-> PIDController(600 + (profile * 20) \div 1000, 0, 200),
     pid_brake |-> PIDController(1200 + (profile * 20) \div 1000, 0, 600),
     reaction_buffer |-> EmptyBuffer,
     last_accel |-> 0,
     tick |-> NoTick]

\* The second run before its first iteration: the same construction, the
\* same keys, no iteration on which the keys of the two runs differed.
NoTwin == [run |-> Constructed, user_accel |-> 0, diverged |-> 0]

\* The state main() builds before the loop (lines 127-136).
InitLoop ==
    /\ lead_car = Constructed.lead_car
    /\ follower_car = Constructed.follower_car
    /\ pid_accel = Constructed.pid_accel
    /\ pid_brake = Constructed.pid_brake
    /\ reaction_buffer = Constructed.reaction_buffer
    /\ last_accel = Constructed.last_accel
    /\ user_accel = 0
    /\ dt = 0
    /\ tick = NoTick
    /\ pushed = << >>
    /\ ticks = 0
    /\ changes = 0
    /\ twin = NoTwin

Init ==
    /\ InitLoop
    /\ pid = PIDController(0, 0, 0)
    /\ pid_ops = << >>

\* The objects of the loop as they are now, as one record.
Loop ==
    [lead_car |-> lead_car, follower_car |-> follower_car,
     pid_accel |-> pid_accel, pid_brake |-> pid_brake,
     reaction_buffer |-> reaction_buffer, last_accel |-> last_accel,
     tick |-> tick]

\* One iteration of the while loop (lines 140-226) on the objects st, with
\* the lead car's acceleration ua and the frame time d: the objects after it.
Iteration(st, ua, d) ==
    LET lead     == CarUpdate(st.lead_car, ua, d)
        sample   == TrueSample(lead, st.follower_car)
        buffer   == Push(st.reaction_buffer, sample)
        seen     == Perceived(buffer)
        mfd      == MinFollowDistance(st.follower_car.speed)
        ttc      == Ttc(seen.distance, seen.rel_speed)
        err      == DistanceError(seen.distance, mfd)
        pa       == DeadbandReset(st.pid_accel, err)
        pb       == DeadbandReset(st.pid_brake, err)
        mode     == Mode(seen.distance, mfd, ttc)
        branch   == BranchAccel(mode, pa, pb, ttc, err, d)
        limited  == JerkLimit(st.last_accel, branch, d)
        follower == CarUpdate(st.follower_car, limited, d)
        again    == mode = "too_close" /\ st.tick.mode = "too_close"
    IN  [lead_car |-> [lead EXCEPT !.x = (WIDTH \div 2) * Scale],
         follower_car |->
             [follower EXCEPT !.x = follower.x - WorldShift(lead, d)],
         pid_accel |-> AccelPidAfter(mode, pa, err, d),
         pid_brake |-> BrakePidAfter(mode, pb, err, d),
         reaction_buffer |-> buffer,
         last_accel |-> limited,
         tick |-> [mode |-> mode, prev_mode |-> st.tick.mode,
                   deadband |-> InDeadband(err),
                   true_sample |-> sample,
                   distance |-> seen.distance, rel_speed |-> seen.rel_speed,
                   follower_speed |-> st.follower_car.speed,
                   follower_x |-> st.follower_car.x,
                   min_follow_distance |-> mfd, ttc |-> ttc,
                   distance_error |-> err,
                   branch_accel |-> branch, prev_accel |-> st.last_accel,
                   popped |-> Len(st.reaction_buffer) + 1 - Len(buffer),
                   accel_updated |-> (mode = "cruise"),
                   brake_updated |-> (mode = "ttc_trim"),
                   accel_was_updated |-> st.tick.accel_updated,
                   brake_was_updated |-> st.tick.brake_updated,
                   accel_start |-> pa, brake_start |-> pb,
                   close_run |-> IF mode # "too_close" THEN 0
                                 ELSE IF again THEN st.tick.close_run + 1
                                 ELSE 1,
                   close_gap |-> IF mode # "too_close" THEN 0
                                 ELSE IF again THEN st.tick.close_gap
                                 ELSE Abs(st.last_accel - MAX_BRAKE * Scale),
                   close_budget |-> IF mode # "too_close" THEN 0
                                    ELSE IF again
                                    THEN st.tick.close_budget
                                         + (MAX_JERK * d * Scale) \div 1000
                                    ELSE (MAX_JERK * d * Scale) \div 1000,
                   lead_braking |-> (ua < 0),
                   follower_braking |-> (limited < -25 * Scale)]]

\* The loop runs one iteration: main()'s objects are replaced by those the
\* iteration leaves, and the histories are extended.
Run(ua, d) ==
    /\ lead_car' = Iteration(Loop, ua, d).lead_car
    /\ follower_car' = Iteration(Loop, ua, d).follower_car
    /\ pid_accel' = Iteration(Loop, ua, d).pid_accel
    /\ pid_brake' = Iteration(Loop, ua, d).pid_brake
    /\ reaction_buffer' = Iteration(Loop, ua, d).reaction_buffer
    /\ last_accel' = Iteration(Loop, ua, d).last_accel
    /\ tick' = Iteration(Loop, ua, d).tick
    /\ user_accel' = ua
    /\ dt' = d
    /\ pushed' = Append(pushed, Iteration(Loop, ua, d).tick.true_sample)
    /\ ticks' = ticks + 1

\* The inputs of an iteration: the keys and the frame time may change only
\* every HoldTicks iterations and MaxChanges times, for MaxTicks iterations.
Held(w, s, d) ==
    LET changed == ticks > 0 /\ (UserAccel(w, s) # user_accel \/ d # dt)
    IN  /\ ticks < MaxTicks
        /\ changed => (ticks % HoldTicks = 0 /\ changes < MaxChanges)
        /\ changes' = IF changed THEN changes + 1 ELSE changes

\* One iteration of the while loop (lines 140-226) with the keys w, s held
\* and the frame time d.
Tick(w, s, d) ==
    /\ Held(w, s, d)
    /\ Run(UserAccel(w, s), d)
    /\ UNCHANGED <<pid, pid_ops, twin>>

Next == \E w \in BOOLEAN, s \in BOOLEAN, d \in DtSet : Tick(w, s, d)

Spec == Init /\ [][Next]_vars

\* ------------------------------------------------------------------------
\* PIDController on its own: any gains, any call sequence
\* ------------------------------------------------------------------------
\* The number of calls made on the controller.
MaxPidOps == 3
\* Gains (thousandths), errors (1/Scale px) and frame times (ms) tried.
PidKp == {612, 1212}
PidKi == {0, 50}
PidKd == {0, 200, 600}
PidErrors == {-300, 0, 200}
PidDts == {-17, 0, 17, 250}

InitPID ==
    /\ InitLoop
    /\ pid \in {PIDController(kp, ki, kd) : kp \in PidKp, ki \in PidKi, kd \in PidKd}
    /\ pid_ops = << >>

\* pid.update(error, d): the call, its arguments, the state it found and the
\* value it returned are appended to the history.
PidUpdateCall(error, d) ==
    /\ Len(pid_ops) < MaxPidOps
    /\ pid' = PIDUpdateState(pid, error, d)
    /\ pid_ops' = Append(pid_ops, [op |-> "update", error |-> error, dt |-> d,
                                   before |-> pid,
                                   out |-> PIDUpdateOutput(pid, error, d)])
    /\ UNCHANGED loop_vars

\* pid.reset()
PidResetCall ==
    /\ Len(pid_ops) < MaxPidOps
    /\ pid' = PIDReset(pid)
    /\ pid_ops' = Append(pid_ops, [op |-> "reset", error |-> 0, dt |-> 0,
                                   before |-> pid, out |-> 0])
    /\ UNCHANGED loop_vars

NextPID ==
    \/ PidResetCall
    \/ \E error \in PidErrors, d \in PidDts : PidUpdateCall(error, d)

SpecPID == InitPID /\ [][NextPID]_vars

\* ------------------------------------------------------------------------
\* The loop from the emergency-stop scenario
\* ------------------------------------------------------------------------
\* The number of iterations of the scenario (one second at 60 FPS).
StopTicks == 60
\* Frame times either side of 1/60 s, ms.
StopDts == {16, 17}

\* The follower at 80 px/s, 40 px behind the lead car; the lead car brakes
\* from 100 px/s with S held, or has already come to rest; the controllers,
\* the buffer and last_accel as main() constructs them.
InitStop ==
    /\ lead_car \in {[x |-> (WIDTH \div 2) * Scale, speed |-> v * Scale]
                       : v \in {0, 100}}
    /\ follower_car = [x |-> (WIDTH \div 2) * Scale - 40 * Scale,
                       speed |-> 80 * Scale]
    /\ pid_accel = Constructed.pid_accel
    /\ pid_brake = Constructed.pid_brake
    /\ reaction_buffer = Constructed.reaction_buffer
    /\ last_accel = Constructed.last_accel
    /\ user_accel = UserAccel(FALSE, TRUE)
    /\ dt \in StopDts
    /\ tick = NoTick
    /\ pushed = << >>
    /\ ticks = 0
    /\ changes = 0
    /\ twin = NoTwin
    /\ pid = PIDController(0, 0, 0)
    /\ pid_ops = << >>

\* One iteration with S held and the frame time of the run.
StopTick ==
    /\ ticks < StopTicks
    /\ Run(user_accel, dt)
    /\ UNCHANGED <<changes, pid, pid_ops, twin>>

SpecStop == InitStop /\ [][StopTick]_vars

\* ------------------------------------------------------------------------
\* The loop from the tracking scenario
\* ------------------------------------------------------------------------
\* The number of iterations of the scenario.
TrackTicks == 1000
\* The constant speeds of the lead car tried, px/s.
TrackSpeeds == {0, 100, 200}

\* The follower at rest, 150 px behind a lead car that holds its speed (no
\* key is down); the controllers, the buffer and last_accel as main()
\* constructs them.
InitTrack ==
    /\ lead_car \in {[x |-> (WIDTH \div 2) * Scale, speed |-> v * Scale]
                       : v \in TrackSpeeds}
    /\ follower_car = [x |-> (WIDTH \div 2) * Scale - 150 * Scale,
                       speed |-> 0]
    /\ pid_accel = Constructed.pid_accel
    /\ pid_brake = Constructed.pid_brake
    /\ reaction_buffer = Constructed.reaction_buffer
    /\ last_accel = Constructed.last_accel
    /\ user_accel = UserAccel(FALSE, FALSE)
    /\ dt \in StopDts
    /\ tick = NoTick
    /\ pushed = << >>
    /\ ticks = 0
    /\ changes = 0
    /\ twin = NoTwin
    /\ pid = PIDController(0, 0, 0)
    /\ pid_ops = << >>

\* One iteration with no key down and the frame time of the run.
TrackTick ==
    /\ ticks < TrackTicks
    /\ Run(user_accel, dt)
    /\ UNCHANGED <<changes, pid, pid_ops, twin>>

SpecTrack == InitTrack /\ [][TrackTick]_vars

\* ------------------------------------------------------------------------
\* Frame times that are not positive: the loop with a stalled clock, or a
\* PIDController on its own
\* ------------------------------------------------------------------------
\* The frame times of the loop, with an iteration in which no time passed.
StallDts == DtSet \cup {0}

\* Either no controller is exercised on its own and the loop runs, or one
\* is and the loop stays as constructed.
InitDt ==
    /\ InitLoop
    /\ pid \in {PIDController(0, 0, 0)}
               \cup {PIDController(kp, ki, kd) :
                        kp \in PidKp, ki \in PidKi, kd \in PidKd}
    /\ pid_ops = << >>

\* One iteration of the loop, the frame time possibly 0.
StallTick(w, s, d) ==
    /\ pid = PIDController(0, 0, 0)
    /\ Tick(w, s, d)

NextDt ==
    \/ \E w \in BOOLEAN, s \in BOOLEAN, d \in StallDts : StallTick(w, s, d)
    \/ pid # PIDController(0, 0, 0) /\ PidResetCall
    \/ \E error \in PidErrors, d \in PidDts :
           pid # PIDController(0, 0, 0) /\ PidUpdateCall(error, d)

SpecDt == InitDt /\ [][NextDt]_vars

\* ------------------------------------------------------------------------
\* Two runs of the loop side by side
\* ------------------------------------------------------------------------
\* The number of times the keys of the first run or the frame time change.
TwinChanges == 1

\* The inputs of an iteration of the pair: as Held, with TwinChanges changes,
\* and the pair stops once the sample at the head of the deque is one that
\* was pushed after the runs parted.
TwinHeld(w, s, d) ==
    LET changed == ticks > 0 /\ (UserAccel(w, s) # user_accel \/ d # dt)
    IN  /\ ticks < MaxTicks
        /\ twin.diverged > 0 => ticks < twin.diverged + max_len
        /\ changed => (ticks % HoldTicks = 0 /\ changes < TwinChanges)
        /\ changes' = IF changed THEN changes + 1 ELSE changes

\* One iteration of both runs with the same frame time d: the first run with
\* the keys w, s, the second with the keys w2, s2. The second run has the
\* keys of the first until, at an iteration at which the keys may change,
\* it takes other keys, which it then holds; twin.diverged is the number of
\* that iteration.
TwinTick(w, s, w2, s2, d) ==
    LET same == UserAccel(w2, s2) = UserAccel(w, s)
    IN  /\ TwinHeld(w, s, d)
        /\ Run(UserAccel(w, s), d)
        /\ IF twin.diverged = 0
           THEN same \/ ticks % HoldTicks = 0
           ELSE UserAccel(w2, s2) = twin.user_accel
        /\ twin' = [run |-> Iteration(twin.run, UserAccel(w2, s2), d),
                    user_accel |-> UserAccel(w2, s2),
                    diverged |-> IF twin.diverged = 0 /\ ~same
                                 THEN ticks + 1
                                 ELSE twin.diverged]
        /\ UNCHANGED <<pid, pid_ops>>

NextTwin ==
    \E w \in BOOLEAN, s \in BOOLEAN, w2 \in BOOLEAN, s2 \in BOOLEAN,
       d \in DtSet : TwinTick(w, s, w2, s2, d)

SpecTwin == Init /\ [][NextTwin]_vars

\* ------------------------------------------------------------------------
\* Properties
\* ------------------------------------------------------------------------
Some == ticks > 0
TooClose == tick.distance < STANDSTILL_DISTANCE * Scale
                              + (tick.follower_speed * TIME_HEADWAY) \div 1000
TtcRisk == tick.ttc.finite /\ tick.ttc.ms < DESIRED_TTC
Zeroed(p) == p.integral = 0 /\ p.prev_error = 0

\* C1: the commanded acceleration starts at 0 and after every iteration
\* differs from the one before it by at most MAX_JERK * dt.
C1_JerkLimited ==
    /\ ticks = 0 => last_accel = 0
    /\ ticks = 1 => tick.prev_accel = 0
    /\ Some => Abs(last_accel - tick.prev_accel) * 1000 <= MAX_JERK * dt * Scale

\* C1: an iteration in which the limiter cut the branch's acceleration.
C1_Witness ==
    /\ Some
    /\ tick.branch_accel # last_accel
    /\ Abs(last_accel - tick.prev_accel) * 1000 = MAX_JERK * dt * Scale

\* C2 (as claimed): the commanded acceleration applied to the follower is
\* always within [MAX_BRAKE, MAX_ACCEL].
C2_WithinActuatorLimits ==
    /\ MAX_BRAKE * Scale <= last_accel
    /\ last_accel <= MAX_ACCEL * Scale

\* C3 (as claimed): inside the deadband, and neither too close nor at TTC
\* risk, the acceleration before the jerk limiter is 0.
C3_DeadbandCommandsNothing ==
    (Some /\ Abs(tick.distance_error) < DEADBAND * Scale
          /\ ~TooClose /\ ~TtcRisk)
        => tick.branch_accel = 0

\* C4: whenever the perceived distance is below the minimum following
\* distance, the acceleration before the jerk limiter is exactly MAX_BRAKE,
\* deadband or TTC risk or not, and the iteration leaves pid_brake as the
\* deadband stage left it (no update).
C4_TooCloseFullBrake ==
    (Some /\ TooClose)
        => /\ tick.branch_accel = MAX_BRAKE * Scale
           /\ pid_brake = tick.brake_start
           /\ ~tick.brake_updated

\* C4: an iteration that was too close, inside the deadband and at TTC risk
\* at once.
C4_Witness ==
    /\ Some /\ TooClose /\ TtcRisk
    /\ Abs(tick.distance_error) < DEADBAND * Scale

\* C5 (as claimed): a controller updated in an iteration that follows one in
\* which it was not updated starts that update with integral and prev_error 0.
C5_ResetBeforeReengage ==
    /\ (ticks >= 2 /\ tick.accel_updated /\ ~tick.accel_was_updated)
           => Zeroed(tick.accel_start)
    /\ (ticks >= 2 /\ tick.brake_updated /\ ~tick.brake_was_updated)
           => Zeroed(tick.brake_start)

\* C6 (as claimed): once max_len samples have been pushed, the perceived
\* sample is the one pushed max_len iterations ago.
C6_DelayIsCapacity ==
    Len(pushed) > max_len
        => Perceived(reaction_buffer) = pushed[Len(pushed) - max_len]

\* C6 (amended): once max_len samples have been pushed, the perceived sample
\* is the one pushed max_len - 1 iterations ago: the head is the oldest of
\* the last max_len samples, of which this iteration's is the newest.
C6_DelayIsCapacityLessOne ==
    Len(pushed) >= max_len
        => /\ Perceived(reaction_buffer) = pushed[Len(pushed) - (max_len - 1)]
           /\ tick.distance = pushed[Len(pushed) - (max_len - 1)].distance
           /\ tick.rel_speed = pushed[Len(pushed) - (max_len - 1)].rel_speed

\* C6: a full buffer whose head differs from the sample of max_len
\* iterations ago.
C6_Witness ==
    /\ Len(pushed) > max_len
    /\ Perceived(reaction_buffer) # pushed[Len(pushed) - max_len]
    /\ Perceived(reaction_buffer) # pushed[Len(pushed)]

\* C7: the buffer starts empty, and until it is full (the iteration that
\* fills it included) the perceived sample is the first sample ever pushed;
\* in the first iteration that is the true sample of the iteration.
C7_StartupRamp ==
    /\ ticks = 0 => reaction_buffer = << >>
    /\ (Some /\ ticks <= max_len)
           => /\ Perceived(reaction_buffer) = pushed[1]
              /\ tick.distance = pushed[1].distance
              /\ tick.rel_speed = pushed[1].rel_speed
    /\ ticks = 1 => /\ tick.distance = tick.true_sample.distance
                    /\ tick.rel_speed = tick.true_sample.rel_speed

\* C7: the last iteration before the buffer is full, the perceived sample
\* still the first one and no longer the true one.
C7_Witness ==
    /\ ticks = max_len - 1
    /\ Perceived(reaction_buffer) = pushed[1]
    /\ tick.true_sample # pushed[1]

\* C8: at every read the buffer holds between 1 and max_len samples, they are
\* the most recently pushed ones in the order pushed, oldest first, and an
\* iteration removes at most one sample (so only ever the head).
C8_BufferBoundsAndOrder ==
    Some => /\ 1 <= Len(reaction_buffer)
            /\ Len(reaction_buffer) <= max_len
            /\ reaction_buffer = SubSeq(pushed,
                                        Len(pushed) - Len(reaction_buffer) + 1,
                                        Len(pushed))
            /\ tick.popped \in {0, 1}
            /\ Len(reaction_buffer) = Min(Len(pushed), max_len)

\* C8: an iteration that removed the head of a full buffer of samples that
\* are not all alike.
C8_Witness ==
    /\ Len(pushed) > max_len + 1
    /\ tick.popped = 1
    /\ Len(reaction_buffer) = max_len
    /\ reaction_buffer[1] # reaction_buffer[max_len]

\* The last call on pid was an update with dt > 0 and the call before it a
\* reset.
ResetThenUpdate ==
    /\ Len(pid_ops) >= 2
    /\ pid_ops[Len(pid_ops) - 1].op = "reset"
    /\ pid_ops[Len(pid_ops)].op = "update"
    /\ pid_ops[Len(pid_ops)].dt > 0
LastOp == pid_ops[Len(pid_ops)]

\* C9 (as claimed): reset() then update(error, dt), dt > 0, returns
\* kp*error + kd*(error/dt) whatever the gains.
C9_FirstUpdateHasNoIntegralTerm ==
    ResetThenUpdate
        => LastOp.out = (pid.kp * LastOp.error
                           + pid.kd * ((LastOp.error * 1000) \div LastOp.dt))
                        \div 1000

\* C9 (amended): reset() then update(error, dt), dt > 0, returns
\* kp*error + ki*(error*dt) + kd*(error/dt): the integral is advanced by
\* error*dt before it is used.
C9_FirstUpdateAfterReset ==
    ResetThenUpdate
        => LastOp.out = (pid.kp * LastOp.error
                           + pid.ki * ((LastOp.error * LastOp.dt) \div 1000)
                           + pid.kd * ((LastOp.error * 1000) \div LastOp.dt))
                        \div 1000

\* C9: reset() then update on a controller with ki # 0 that held state
\* before the reset, the integral term being felt in the result.
C9_Witness ==
    /\ ResetThenUpdate
    /\ pid.ki # 0
    /\ ~Zeroed(pid_ops[Len(pid_ops) - 1].before)
    /\ LastOp.out # (pid.kp * LastOp.error
                       + pid.kd * ((LastOp.error * 1000) \div LastOp.dt))
                    \div 1000

\* C10: whenever the perceived relative speed is <= 0, ttc is infinite (no
\* quotient was formed) and neither TTC branch runs.
C10_NoTtcBrakingUnlessClosing ==
    (Some /\ tick.rel_speed <= 0)
        => /\ tick.rel_speed = Perceived(reaction_buffer).rel_speed
           /\ ~tick.ttc.finite
           /\ tick.mode \notin {"ttc_trim", "ttc_full_brake"}
           /\ ~tick.brake_updated

\* C10: a gap below the target seen opening (the quotient, had it been
\* formed, would be negative and below MIN_TTC), and the cruise branch taken.
C10_Witness ==
    /\ ticks > max_len
    /\ tick.rel_speed < 0
    /\ tick.distance < TARGET_DISTANCE
    /\ tick.mode = "cruise"

\* C11: after every iteration the speed of both cars is within
\* [0, MAX_SPEED], and each car's position was advanced by its speed after
\* the clamp: the lead car (measured by the true sample, before it is put
\* back at WIDTH // 2) and the follower (before and after the world shift).
C11_SpeedClamped ==
    /\ 0 <= lead_car.speed /\ lead_car.speed <= MAX_SPEED * Scale
    /\ 0 <= follower_car.speed /\ follower_car.speed <= MAX_SPEED * Scale
    /\ Some =>
        /\ tick.true_sample.distance =
               (WIDTH \div 2) * Scale + (lead_car.speed * dt) \div 1000
               - tick.follower_x
        /\ tick.true_sample.rel_speed = tick.follower_speed - lead_car.speed
        /\ follower_car.x =
               tick.follower_x + (follower_car.speed * dt) \div 1000
               - (lead_car.speed * dt) \div 1000

\* C11 witness: both clamps acted in one run: the lead car is held at
\* MAX_SPEED with W down, and the follower, commanded to decelerate below
\* rest, stays at speed 0.
C11_Witness ==
    /\ Some
    /\ user_accel > 0
    /\ lead_car.speed = MAX_SPEED * Scale
    /\ follower_car.speed = 0
    /\ tick.follower_speed + (last_accel * dt) \div 1000 < 0

\* C12: in the emergency-stop scenario the first iteration takes the
\* too-close branch, the true distance is above 0 in every iteration, before
\* and after the follower moves, and the follower is at rest by the end.
C12_EmergencyStop ==
    /\ ticks = 1 => tick.mode = "too_close" /\ tick.branch_accel = MAX_BRAKE * Scale
    /\ Some => tick.true_sample.distance > 0
    /\ lead_car.x - follower_car.x > 0
    /\ ticks >= StopTicks => follower_car.speed = 0

\* C12 witness: the iteration that brings the follower to rest, at full
\* braking, behind a lead car that has stopped, the gap smaller than at the
\* start and above 0.
C12_Witness ==
    /\ Some
    /\ tick.follower_speed > 0
    /\ follower_car.speed = 0
    /\ last_accel = MAX_BRAKE * Scale
    /\ lead_car.speed = 0
    /\ lead_car.x - follower_car.x < 40 * Scale
    /\ lead_car.x - follower_car.x > 0

\* C13: in the tracking scenario the perceived distance is never below
\* min_follow_distance, and by the last of the TrackTicks iterations the
\* distance error is within the deadband.
C13_TracksTarget ==
    /\ Some => tick.distance >= tick.min_follow_distance
    /\ ticks >= TrackTicks => InDeadband(tick.distance_error)

\* The controller as call number i left it.
PidAfter(i) == IF i = Len(pid_ops) THEN pid ELSE pid_ops[i + 1].before

\* C15: reset() called twice in a row leaves the controller as the first
\* call left it: integral and prev_error 0, the gains those before the
\* calls; an update that follows the two calls returns what it returns from
\* that state, kp*error + ki*(error*dt) + kd*(error/dt), the last term only
\* when dt > 0.
C15_ResetIdempotent ==
    \A i \in 1 .. Len(pid_ops) - 1 :
        (pid_ops[i].op = "reset" /\ pid_ops[i + 1].op = "reset")
        => /\ PidAfter(i + 1) = PidAfter(i)
           /\ Zeroed(PidAfter(i + 1))
           /\ PidAfter(i + 1).kp = pid_ops[i].before.kp
           /\ PidAfter(i + 1).ki = pid_ops[i].before.ki
           /\ PidAfter(i + 1).kd = pid_ops[i].before.kd
           /\ (i + 2 <= Len(pid_ops) /\ pid_ops[i + 2].op = "update")
              => pid_ops[i + 2].out =
                     (pid.kp * pid_ops[i + 2].error
                        + pid.ki * ((pid_ops[i + 2].error * pid_ops[i + 2].dt)
                                        \div 1000)
                        + pid.kd * (IF pid_ops[i + 2].dt > 0
                                    THEN (pid_ops[i + 2].error * 1000)
                                             \div pid_ops[i + 2].dt
                                    ELSE 0))
                     \div 1000

\* C15 witness: an update left the controller with an integral and a
\* previous error, and reset() was then called twice.
C15_Witness ==
    /\ Len(pid_ops) = 3
    /\ pid_ops[1].op = "update"
    /\ pid_ops[2].op = "reset"
    /\ pid_ops[3].op = "reset"
    /\ pid_ops[2].before.integral # 0
    /\ pid_ops[2].before.prev_error # 0
    /\ Zeroed(pid)

\* C16: every iteration runs exactly one of the three branches, chosen by
\* the conditions in their order (too close; else TTC below DESIRED_TTC;
\* else cruise); what the TTC branch leaves in desired_accel before the
\* jerk limiter is at least MAX_BRAKE, what the cruise branch leaves is at
\* most MAX_ACCEL, and the too-close branch leaves MAX_BRAKE.
C16_OneSidedClamps ==
    Some =>
        /\ tick.mode \in {"too_close", "ttc_full_brake", "ttc_trim", "cruise"}
        /\ tick.mode = "too_close" <=> TooClose
        /\ tick.mode \in {"ttc_full_brake", "ttc_trim"}
               <=> (~TooClose /\ TtcRisk)
        /\ tick.mode = "cruise" <=> (~TooClose /\ ~TtcRisk)
        /\ tick.mode = "too_close" => tick.branch_accel = MAX_BRAKE * Scale
        /\ tick.mode \in {"ttc_full_brake", "ttc_trim"}
               => tick.branch_accel >= MAX_BRAKE * Scale
        /\ tick.mode = "cruise" => tick.branch_accel <= MAX_ACCEL * Scale

\* C16 witness: the floor of the TTC branch acted: braking term plus trim
\* were below MAX_BRAKE and the branch left MAX_BRAKE.
C16_Witness ==
    /\ Some
    /\ tick.mode = "ttc_trim"
    /\ TtcBrake(tick.ttc)
           + PIDUpdateOutput(tick.brake_start, tick.distance_error, dt)
       < MAX_BRAKE * Scale
    /\ tick.branch_accel = MAX_BRAKE * Scale

\* C17: on every iteration of the too-close branch the commanded
\* acceleration moves from the previous one toward MAX_BRAKE by
\* min(MAX_JERK * dt, what is left to MAX_BRAKE); over a run of consecutive
\* too-close iterations what is left is the distance at the start of the
\* run less the sum of MAX_JERK * dt over the run, floored at 0, so the
\* command is MAX_BRAKE exactly from the first iteration at which that sum
\* covers the distance (iteration ceil(distance / (MAX_JERK * dt)) of the
\* run when dt is constant) and stays MAX_BRAKE for the rest of the run.
C17_BrakeRamp ==
    (Some /\ tick.mode = "too_close") =>
        /\ dt > 0
        /\ Abs(last_accel - MAX_BRAKE * Scale) =
               Abs(tick.prev_accel - MAX_BRAKE * Scale)
               - Min((MAX_JERK * dt * Scale) \div 1000,
                     Abs(tick.prev_accel - MAX_BRAKE * Scale))
        /\ tick.prev_accel >= MAX_BRAKE * Scale
               => (MAX_BRAKE * Scale <= last_accel
                   /\ last_accel <= tick.prev_accel)
        /\ tick.prev_accel <= MAX_BRAKE * Scale
               => (tick.prev_accel <= last_accel
                   /\ last_accel <= MAX_BRAKE * Scale)
        /\ Abs(last_accel - MAX_BRAKE * Scale) =
               Max(0, tick.close_gap - tick.close_budget)
        /\ tick.close_budget >= tick.close_gap
               => last_accel = MAX_BRAKE * Scale
        /\ tick.close_budget = tick.close_run * ((MAX_JERK * dt * Scale) \div 1000)
               => (last_accel = MAX_BRAKE * Scale
                   <=> tick.close_run * ((MAX_JERK * dt * Scale) \div 1000)
                           >= tick.close_gap)

\* C17 witness: a run of at least three too-close iterations that began
\* further from MAX_BRAKE than one iteration's MAX_JERK * dt, has reached
\* MAX_BRAKE and stays there.
C17_Witness ==
    /\ Some
    /\ tick.mode = "too_close"
    /\ tick.close_run >= 3
    /\ tick.close_gap > (MAX_JERK * dt * Scale) \div 1000
    /\ tick.prev_accel = MAX_BRAKE * Scale
    /\ last_accel = MAX_BRAKE * Scale

\* C18: update(error, dt) with dt <= 0 adds error * dt to the integral, sets
\* prev_error to error and returns kp*error + ki*integral with the updated
\* integral and no derivative term; an iteration of the loop with dt = 0
\* leaves the commanded acceleration what it was, and the controller its
\* branch updates returns kp*error and keeps its integral.
C18_NonPositiveDt ==
    /\ (pid_ops # << >> /\ LastOp.op = "update" /\ LastOp.dt <= 0) =>
        /\ pid.integral = LastOp.before.integral
                            + (LastOp.error * LastOp.dt) \div 1000
        /\ pid.prev_error = LastOp.error
        /\ LastOp.out = (pid.kp * LastOp.error + pid.ki * pid.integral)
                        \div 1000
    /\ (Some /\ dt = 0) =>
        /\ last_accel = tick.prev_accel
        /\ tick.mode = "cruise" =>
            /\ pid_accel.integral = tick.accel_start.integral
            /\ pid_accel.prev_error = tick.distance_error
            /\ tick.branch_accel =
                   Min((pid_accel.kp * tick.distance_error
                          + pid_accel.ki * pid_accel.integral) \div 1000,
                       MAX_ACCEL * Scale)
        /\ tick.mode = "ttc_trim" =>
            /\ pid_brake.integral = tick.brake_start.integral
            /\ pid_brake.prev_error = tick.distance_error

\* C18 witness: an iteration with dt = 0 in the cruise branch: the error
\* differs from the controller's previous error, the branch asks for another
\* acceleration than the previous command, and the command stays.
C18_Witness ==
    /\ Some
    /\ dt = 0
    /\ tick.mode = "cruise"
    /\ tick.distance_error # tick.accel_start.prev_error
    /\ tick.branch_accel # tick.prev_accel
    /\ tick.prev_accel # 0
    /\ last_accel = tick.prev_accel

\* C19: an iteration updates at most one of the two controllers, pid_accel
\* only in the cruise branch and pid_brake only in the TTC trim; after every
\* iteration outside the cruise branch pid_accel holds integral 0 and
\* prev_error 0, after every cruise iteration pid_brake does, so at most
\* one of them holds a non-zero state.
C19_PidExclusive ==
    Some =>
        /\ ~(tick.accel_updated /\ tick.brake_updated)
        /\ tick.accel_updated <=> tick.mode = "cruise"
        /\ tick.brake_updated <=> tick.mode = "ttc_trim"
        /\ tick.mode # "cruise" => Zeroed(pid_accel)
        /\ tick.mode = "cruise" => Zeroed(pid_brake)
        /\ tick.mode \in {"too_close", "ttc_full_brake"}
               => pid_brake = tick.brake_start
        /\ Zeroed(pid_accel) \/ Zeroed(pid_brake)

\* C19 witness: a cruise iteration that follows a TTC trim and found
\* pid_brake with the state of that trim: pid_brake is zeroed and pid_accel
\* holds the state of its update.
C19_Witness ==
    /\ Some
    /\ tick.mode = "cruise"
    /\ tick.prev_mode = "ttc_trim"
    /\ ~Zeroed(tick.brake_start)
    /\ Zeroed(pid_brake)
    /\ ~Zeroed(pid_accel)

\* The iteration that pushed the sample now at the head of the deque.
HeadTick == Max(1, ticks - (max_len - 1))

\* C20: two runs with the same frame times whose lead cars are driven alike
\* before iteration twin.diverged command the same acceleration and have the
\* same follower speed at every iteration whose perceived sample was pushed
\* before iteration twin.diverged, whatever the lead cars do from then on.
C20_DelayedPerception ==
    (twin.diverged > 0 /\ HeadTick < twin.diverged) =>
        /\ twin.run.last_accel = last_accel
        /\ twin.run.follower_car.speed = follower_car.speed
        /\ twin.run.tick.follower_braking = tick.follower_braking

\* C20 witness: the deque is full, the lead cars of the two runs have been
\* driven differently for at least five iterations, their speeds and the
\* true samples of this iteration differ, the controller is commanding an
\* acceleration, and the perceived sample is still one from before the runs
\* parted.
C20_Witness ==
    /\ ticks >= max_len
    /\ twin.diverged > 0
    /\ HeadTick < twin.diverged
    /\ ticks >= twin.diverged + 5
    /\ twin.run.lead_car.speed # lead_car.speed
    /\ twin.run.tick.true_sample # tick.true_sample
    /\ last_accel # 0

====
